---- MODULE Spec2Model ----
(***************************************************************************)
(* PrivBatch agent: the Merkle tree of agent/src/merkle.py, the EIP-712    *)
(* signing of agent/src/signer.py, the intent collector of                 *)
(* agent/src/collector.py and the range sizing of agent/src/optimizer.py.  *)
(*                                                                         *)
(* A 32-byte value is modelled as the natural number it spells in          *)
(* big-endian, so Python's byte-lexicographic `a <= b` on two 32-byte      *)
(* values is `a <= b` on naturals.  Web3.keccak is modelled as an          *)
(* injective function of the sequence of 32-byte words it is given         *)
(* (collision-free hash): different concatenations, also the same two      *)
(* words in the other order, have different digests.                       *)
(***************************************************************************)
EXTENDS Integers, Sequences, FiniteSets, TLC

\* ------------------------------------------------------------------ bounds

\* Longest leaf list handed to the constructor.
MaxLeaves == 4

\* Leaf values are the words 0 .. MaxLeaf.
MaxLeaf == 3

\* Private keys are 1 .. NKeys; key k controls the address with id k.
NKeys == 2

\* The integer fields of an intent take the values 0 .. MaxField.
MaxField == 1

\* The collector's clock runs from 1 to MaxClock.
MaxClock == 2

\* At most MaxPending intents are held by the collector and a running batch.
MaxPending == 2

\* At most MaxBatches batches are recorded.
MaxBatches == 1

\* Log-prices are counted in steps of 1/Resolution tick, from -MaxLog to MaxLog.
Resolution == 2

MaxLog == 4

\* Volatilities are -1 .. MaxVol and multipliers -1 .. MaxK, in units whose
\* product moves the log-price by one step; tick spacings are 1 .. MaxSpacing.
MaxVol == 4

MaxK == 2

MaxSpacing == 2

\* At most MaxHistory batch results are recorded for learning.
MaxHistory == 3

VARIABLES
    input,    \* the caller's leaf list, the argument of MerkleTree(...)
    tree,     \* the constructed MerkleTree object: NoTree or [leaves, layers]
    other,    \* a second leaf list of the caller (same list, one leaf changed, or reordered)
    tree2,    \* the MerkleTree constructed from `other`
    call,     \* the last call made and what it returned or raised
    sg,       \* a signing session: the intent, the key, the signature, what was recovered
    pending_intents,  \* IntentCollector.pending_intents: a list of (intent, signature)
    batches_executed, \* IntentCollector.batches_executed, the length of batches_executed
    now,              \* int(time.time())
    resp,             \* the last request to submit_intent and its response
    pb,               \* process_batch: where it stands and its local list `pending`
    last_batch,       \* IntentCollector.last_batch_root and last_batch_tx
    accepted,         \* history: the (user, nonce) of every intent submit_intent accepted
    batched,          \* history: the (user, nonce) of every intent of a submitted batch
    rg,               \* two calls of compute_optimal_range: their arguments and results
    ad                \* AdaptiveParams: k_multiplier, history, and the last call made on it

merkleVars == <<input, tree, other, tree2, call>>

collectorVars ==
    <<pending_intents, batches_executed, last_batch, now, resp, pb, accepted, batched>>

\* What the Merkle tree's callers leave alone.
agentVars == <<sg, collectorVars, rg, ad>>

vars ==
    <<input, tree, other, tree2, call, sg, pending_intents, batches_executed, last_batch, now,
      resp, pb, accepted, batched, rg, ad>>

\* ------------------------------------------------------------ hash primitive

\* Web3.keccak(a + b) of two 32-byte words: the Cantor pairing of the two
\* words, shifted by 4.  Injective in the ordered pair, so keccak(a + b) and
\* keccak(b + a) differ when a # b; the words 0 .. 3 are no digest.
Keccak(words) ==
    LET x == words[1]
        y == words[2]
    IN  (((x + y) * (x + y + 1)) \div 2) + y + 4

\* _hash_pair without the sort: hashes a + b as given.
hash_pair_unsorted(a, b) == Keccak(<<a>> \o <<b>>)

\* merkle.py _hash_pair: sort the two nodes, then hash the concatenation.
_hash_pair(a, b) ==
    IF a <= b
    THEN Keccak(<<a>> \o <<b>>)
    ELSE Keccak(<<b>> \o <<a>>)

\* ------------------------------------------------------------------ the tree

NoTree == [leaves |-> <<>>, layers |-> <<>>]

\* The loop body of _build that duplicates the odd last node (Bitcoin style).
RECURSIVE pair_up_dup(_, _)
pair_up_dup(layer, i) ==
    LET n == Len(layer)
    IN  IF i >= n
        THEN <<>>
        ELSE <<(IF i + 1 < n
                THEN _hash_pair(layer[i + 1], layer[i + 2])
                ELSE _hash_pair(layer[i + 1], layer[i + 1]))>>
             \o pair_up_dup(layer, i + 2)

\* The loop body of _build that stops before an unpaired last node
\* (`range(0, n - 1, 2)`): the odd node is dropped, not carried.
RECURSIVE pair_up_drop(_, _)
pair_up_drop(layer, i) ==
    LET n == Len(layer)
    IN  IF i + 1 >= n
        THEN <<>>
        ELSE <<_hash_pair(layer[i + 1], layer[i + 2])>> \o pair_up_drop(layer, i + 2)

\* _build, lines 67-73: `for i in range(0, n, 2)` from position i on (0-based):
\* hash the pair (i, i+1) when both exist, carry layer[i] forward otherwise.
RECURSIVE pair_up(_, _)
pair_up(layer, i) ==
    LET n == Len(layer)
    IN  IF i >= n
        THEN <<>>
        ELSE <<(IF i + 1 < n
                THEN _hash_pair(layer[i + 1], layer[i + 2])
                ELSE layer[i + 1])>>
             \o pair_up(layer, i + 2)

\* A _build whose loop runs at least once (do-while) and pads a lone node
\* with itself: a single leaf is hashed into a digest above it.
RECURSIVE build_loop_pad(_, _)
build_loop_pad(layer, layers) ==
    IF Len(layer) > 1
    THEN LET next_layer == pair_up(layer, 0)
         IN  build_loop_pad(next_layer, Append(layers, next_layer))
    ELSE IF Len(layers) = 1
         THEN Append(layers, <<_hash_pair(layer[1], layer[1])>>)
         ELSE layers

\* _build, lines 66-75: `while len(layer) > 1`, appending each new layer.
RECURSIVE build_loop(_, _)
build_loop(layer, layers) ==
    IF Len(layer) > 1
    THEN LET next_layer == pair_up(layer, 0)
         IN  build_loop(next_layer, Append(layers, next_layer))
    ELSE layers

\* MerkleTree._build: layer 0 is a copy of self.leaves, appended to self.layers.
_build(self) ==
    [self EXCEPT !.layers = build_loop(self.leaves, Append(self.layers, self.leaves))]

\* The constructor's guard: `if not leaves: raise ValueError`.
no_leaves_lenient(leaves) == FALSE

no_leaves(leaves) == Len(leaves) = 0

\* A constructor that keeps appending to the layers list of the tree built
\* before it (a list shared between instances instead of `self.layers = []`).
MerkleTree_shared(leaves) ==
    _build([leaves |-> leaves, layers |-> tree.layers])

\* MerkleTree.__init__ past its guard: own copy of the leaves, fresh layers, _build.
MerkleTree(leaves) ==
    _build([leaves |-> leaves, layers |-> <<>>])

\* A constructor that keeps the caller's list itself (self.leaves = leaves):
\* what the caller writes to its list shows in the tree.
leaves_after_write_aliased(self, written) == written

\* merkle.py line 57, self.leaves = list(leaves): the tree's leaves after
\* the caller has written to the list it passed, which is now `written`.
leaves_after_write(self, written) == self.leaves

\* MerkleTree.root: the first node of the last layer.
root(self) == self.layers[Len(self.layers)][1]

\* get_proof's guard with an off-by-one upper end.
index_in_range_loose(self, index) == index >= 0 /\ index <= Len(self.leaves)

\* get_proof, line 83, negated: the index names a leaf.
index_in_range(self, index) == index >= 0 /\ index < Len(self.leaves)

\* get_proof's loop taking the right neighbour at every layer.
RECURSIVE proof_loop_right(_, _, _, _)
proof_loop_right(self, k, idx, proof) ==
    IF k > Len(self.layers) - 1
    THEN proof
    ELSE LET layer == self.layers[k]
             n == Len(layer)
         IN  proof_loop_right(self, k + 1, idx \div 2,
                 IF idx + 1 < n THEN Append(proof, layer[idx + 2]) ELSE proof)

\* get_proof, lines 89-98: `for layer in self.layers[:-1]`, from the k-th
\* layer (1-based) on, with the running 0-based position idx.
RECURSIVE proof_loop(_, _, _, _)
proof_loop(self, k, idx, proof) ==
    IF k > Len(self.layers) - 1
    THEN proof
    ELSE LET layer == self.layers[k]
             n == Len(layer)
         IN  proof_loop(self, k + 1, idx \div 2,
                 IF idx % 2 = 0
                 THEN (IF idx + 1 < n THEN Append(proof, layer[idx + 2]) ELSE proof)
                 ELSE Append(proof, layer[idx]))

\* MerkleTree.get_proof past its guard.
get_proof(self, index) == proof_loop(self, 1, index, <<>>)

\* verify's fold, lines 104-106, from the k-th proof element on.
RECURSIVE fold(_, _, _)
fold(computed, proof, k) ==
    IF k > Len(proof)
    THEN computed
    ELSE fold(_hash_pair(computed, proof[k]), proof, k + 1)

\* A verify that compares with the tree's own root, not with the root it is given.
verify_own_root(leaf, proof, root_) == fold(leaf, proof, 1) = root(tree)

\* MerkleTree.verify.
verify(leaf, proof, root_) == fold(leaf, proof, 1) = root_

\* ------------------------------------------------- typed data and signatures

\* An address is a hex string: the 20 bytes it spells (id) and its letter
\* case, all lower case or EIP-55 checksum case.
Forms == {"lower", "checksum"}

Keys == 1 .. NKeys

AddressStrings == {[id |-> k, form |-> f] : k \in Keys, f \in Forms}

\* Account.from_key(key).address: the checksum spelling of the key's address.
Address(key) == [id |-> key, form |-> "checksum"]

\* The address recovery yields when the signature is not one of the digest:
\* an address no key of the model controls.
Stranger == [id |-> 0, form |-> "checksum"]

\* str.lower() of an address string.
lower(a) == [a EXCEPT !.form = "lower"]

\* Web3.keccak of an ABI encoding: collision-free, so the digest is kept as
\* the encoding it was computed from; only equality of digests is used.
Keccak256(encoded) == <<"keccak256", encoded>>

\* eth_abi encode of an address: its 20 bytes, whatever the letter case.
abi_address(a) == a.id

\* merkle.py _hash_pool_key: type hash and the five fields, encoded and hashed.
_hash_pool_key(pool) ==
    Keccak256(<<"PoolKey(address currency0,address currency1,uint24 fee,int24 tickSpacing,address hooks)",
                abi_address(pool.currency0), abi_address(pool.currency1),
                pool.fee, pool.tick_spacing, abi_address(pool.hooks)>>)

\* A compute_leaf that leaves the deadline out of the encoding.
compute_leaf_no_deadline(intent) ==
    Keccak256(<<"LPIntent", abi_address(intent.user), _hash_pool_key(intent.pool),
                intent.tick_lower, intent.tick_upper, intent.amount, intent.nonce>>)

\* merkle.py compute_leaf: type hash, user, the pool's struct hash and the
\* five integers, encoded and hashed.
compute_leaf(intent) ==
    Keccak256(<<"LPIntent", abi_address(intent.user), _hash_pool_key(intent.pool),
                intent.tick_lower, intent.tick_upper, intent.amount, intent.nonce,
                intent.deadline>>)

\* A build_eip712_message that leaves the amount out of the message.
build_eip712_message_no_amount(intent, chain_id, verifying_contract) ==
    [domain |-> [name |-> "PrivBatch", version |-> "1", chainId |-> chain_id,
                 verifyingContract |-> verifying_contract],
     primaryType |-> "LPIntent",
     message |-> [user |-> intent.user,
                  pool |-> [currency0 |-> intent.pool.currency0,
                            currency1 |-> intent.pool.currency1,
                            fee |-> intent.pool.fee,
                            tickSpacing |-> intent.pool.tick_spacing,
                            hooks |-> intent.pool.hooks],
                  tickLower |-> intent.tick_lower,
                  tickUpper |-> intent.tick_upper,
                  amount |-> 0,
                  nonce |-> intent.nonce,
                  deadline |-> intent.deadline]]

\* signer.py build_eip712_message: the domain with chain id and verifying
\* contract, and the message with every field of the intent.
build_eip712_message(intent, chain_id, verifying_contract) ==
    [domain |-> [name |-> "PrivBatch", version |-> "1", chainId |-> chain_id,
                 verifyingContract |-> verifying_contract],
     primaryType |-> "LPIntent",
     message |-> [user |-> intent.user,
                  pool |-> [currency0 |-> intent.pool.currency0,
                            currency1 |-> intent.pool.currency1,
                            fee |-> intent.pool.fee,
                            tickSpacing |-> intent.pool.tick_spacing,
                            hooks |-> intent.pool.hooks],
                  tickLower |-> intent.tick_lower,
                  tickUpper |-> intent.tick_upper,
                  amount |-> intent.amount,
                  nonce |-> intent.nonce,
                  deadline |-> intent.deadline]]

\* eth_account encode_typed_data: the domain separator and the struct hash of
\* the message, the two hashes that are signed.
encode_typed_data(full_message) ==
    LET d == full_message.domain
        m == full_message.message
    IN  [header |-> Keccak256(<<"EIP712Domain", d.name, d.version, d.chainId,
                                abi_address(d.verifyingContract)>>),
         body |-> Keccak256(<<full_message.primaryType, abi_address(m.user),
                              Keccak256(<<"PoolKey", abi_address(m.pool.currency0),
                                          abi_address(m.pool.currency1), m.pool.fee,
                                          m.pool.tickSpacing, abi_address(m.pool.hooks)>>),
                              m.tickLower, m.tickUpper, m.amount, m.nonce,
                              m.deadline>>)]

\* Account.sign_message: a deterministic ECDSA signature (r, s, v) that only
\* the key produces for the signable message.
sign_message(signable, private_key) ==
    [r |-> <<"r", private_key, signable>>,
     s |-> <<"s", private_key, signable>>,
     v |-> 27 + (private_key % 2)]

\* A sign_intent that signs for chain id 1 whatever chain id it is given.
sign_intent_mainnet(intent, private_key, chain_id, verifying_contract) ==
    LET signed == sign_message(
            encode_typed_data(build_eip712_message(intent, 1, verifying_contract)),
            private_key)
    IN  <<signed.r, signed.s, signed.v>>

\* signer.py sign_intent: the 65 bytes r + s + v.
sign_intent(intent, private_key, chain_id, verifying_contract) ==
    LET signed == sign_message(
            encode_typed_data(build_eip712_message(intent, chain_id, verifying_contract)),
            private_key)
    IN  <<signed.r, signed.s, signed.v>>

\* Account.recover_message: raises on a recovery id other than 27 or 28,
\* yields the signer's address for a signature of this message and an
\* unrelated address for any other signature.
recover_message(signable, signature) ==
    IF signature[3] \notin {27, 28}
    THEN [err |-> "ValueError", addr |-> Stranger]
    ELSE IF \E k \in Keys : signature = <<sign_message(signable, k).r,
                                           sign_message(signable, k).s,
                                           sign_message(signable, k).v>>
         THEN [err |-> "none",
               addr |-> Address(CHOOSE k \in Keys :
                           signature = <<sign_message(signable, k).r,
                                         sign_message(signable, k).s,
                                         sign_message(signable, k).v>>)]
         ELSE [err |-> "none", addr |-> Stranger]

\* signer.py verify_intent_signature: the address recovered for the intent's
\* signable message.
verify_intent_signature(intent, signature, chain_id, verifying_contract) ==
    recover_message(
        encode_typed_data(build_eip712_message(intent, chain_id, verifying_contract)),
        signature)

\* ------------------------------------------------------------ range sizing

\* A price is positive or not; a positive price is kept as its logarithm, in
\* steps of 1/Resolution of ln(1.0001).
Price(log) == [positive |-> TRUE, log |-> log]

NonPositive == [positive |-> FALSE, log |-> 0]

\* optimizer.py line 74: the minimum volatility, 1%.
min_volatility == 2

\* optimizer.py price_to_tick, for a positive price:
\* floor(log(price) / log(1.0001)).
price_to_tick(price) == price.log \div Resolution

\* optimizer.py round_tick: (tick // tick_spacing) * tick_spacing.
round_tick(tick, tick_spacing) == (tick \div tick_spacing) * tick_spacing

\* price * exp(x), x in steps.
times_exp(price, x) == [price EXCEPT !.log = @ + x]

\* A lower price taken on the upper side.
price_lower_up(current_price, k_multiplier, volatility) ==
    times_exp(current_price, k_multiplier * volatility)

\* optimizer.py line 80: current_price * exp(-k_multiplier * volatility).
price_lower(current_price, k_multiplier, volatility) ==
    times_exp(current_price, -(k_multiplier * volatility))

\* optimizer.py line 81: current_price * exp(k_multiplier * volatility).
price_upper(current_price, k_multiplier, volatility) ==
    times_exp(current_price, k_multiplier * volatility)

\* optimizer.py compute_optimal_range: ValueError for a price that is not
\* positive, else (tick_lower, tick_upper).
compute_optimal_range(current_price, volatility, k_multiplier, tick_spacing) ==
    LET vol == IF volatility <= 0 THEN min_volatility ELSE volatility
        tick_lower == round_tick(price_to_tick(price_lower(current_price, k_multiplier, vol)),
                                 tick_spacing)
        tick_upper == round_tick(price_to_tick(price_upper(current_price, k_multiplier, vol)),
                                 tick_spacing) + tick_spacing
    IN  IF ~current_price.positive
        THEN [err |-> "ValueError", tick_lower |-> 0, tick_upper |-> 0]
        ELSE [err |-> "none", tick_lower |-> tick_lower,
              tick_upper |-> IF tick_lower >= tick_upper THEN tick_lower + tick_spacing
                             ELSE tick_upper]

NoRange ==
    [current_price |-> NonPositive, volatility |-> 0, k_multiplier |-> 0, tick_spacing |-> 1,
     first |-> [err |-> "unset", tick_lower |-> 0, tick_upper |-> 0],
     varied |-> "none", larger |-> 0,
     second |-> [err |-> "unset", tick_lower |-> 0, tick_upper |-> 0]]

\* ------------------------------------------------------- adaptive learning

\* adaptive.py lines 24-26: k_multiplier 2.0, min_k 1.0, max_k 5.0, in
\* hundredths.
default_k == 200

min_k == 100

max_k == 500

\* adaptive.py line 27: learning_rate 0.1, as the divisor 10.
learning_divisor == 10

\* adaptive.py line 75: target_il 0.3, in percent.
target_il == 30

\* adaptive.py line 70: the last 10 results are used.
recent_window == 10

\* AdaptiveParams(k_multiplier=...): an empty history.
AdaptiveParams(k_multiplier) ==
    [k_multiplier |-> k_multiplier, history |-> <<>>, op |-> "none"]

\* BatchResult: the range and the prices at entry and at the check; the
\* prices default to 0.0.
BatchResult(tick_lower, tick_upper, price_at_entry, price_at_check) ==
    [tick_lower |-> tick_lower, tick_upper |-> tick_upper,
     price_at_entry |-> price_at_entry, price_at_check |-> price_at_check]

\* adaptive.py calculate_il_score, in percent: 0 without prices, 100 when the
\* price has left the range, else |2 sqrt(r) / (1 + r) - 1| for the price
\* ratio r, which is d^2 / (8 + d^2) to second order in the log-ratio d.
calculate_il_score(result) ==
    IF ~result.price_at_entry.positive \/ ~result.price_at_check.positive THEN 0
    ELSE IF \/ result.price_at_check.log < result.tick_lower * Resolution
            \/ result.price_at_check.log > result.tick_upper * Resolution
         THEN 100
         ELSE LET d == result.price_at_check.log - result.price_at_entry.log
              IN  (100 * d * d) \div (8 + d * d)

\* adaptive.py record_batch: history.append(result).
adaptive_record_batch(self, result) ==
    [self EXCEPT !.history = Append(@, result)]

RECURSIVE sum(_)
sum(scores) == IF scores = <<>> THEN 0 ELSE Head(scores) + sum(Tail(scores))

\* max(min_k, min(max_k, k))
clamp(k) ==
    LET low == IF max_k < k THEN max_k ELSE k
    IN  IF min_k > low THEN min_k ELSE low

\* An update that adds the adjustment and does not clamp.
update_k_unclamped(self) ==
    IF Len(self.history) < 2 THEN self
    ELSE LET avg_il == sum([i \in 1 .. Len(self.history) |->
                              calculate_il_score(self.history[i])]) \div Len(self.history)
         IN  [self EXCEPT !.k_multiplier = @ + ((avg_il - target_il) \div learning_divisor)]

\* adaptive.py update_k: nothing with fewer than 2 results; else k moves by
\* learning_rate * (average score of the recent results - target), clamped.
update_k(self) ==
    IF Len(self.history) < 2 THEN self
    ELSE LET first == IF Len(self.history) > recent_window
                      THEN Len(self.history) - recent_window + 1 ELSE 1
             recent == SubSeq(self.history, first, Len(self.history))
             il_scores == [i \in 1 .. Len(recent) |-> calculate_il_score(recent[i])]
             avg_il == sum(il_scores) \div Len(il_scores)
             adjustment == (avg_il - target_il) \div learning_divisor
         IN  [self EXCEPT !.k_multiplier = clamp(@ + adjustment)]

\* ------------------------------------------------------------- the callers

LeafValues == 0 .. MaxLeaf

\* Every leaf list of at most MaxLeaves leaves, the empty one included.
LeafLists == UNION {[1 .. n -> LeafValues] : n \in 0 .. MaxLeaves}

\* The indices a caller tries: the valid ones, -1 and those up to MaxLeaves.
Indices == -1 .. MaxLeaves

\* The nodes of every layer of a tree.
Nodes(self) ==
    UNION {{self.layers[k][i] : i \in 1 .. Len(self.layers[k])} : k \in 1 .. Len(self.layers)}

\* The 32-byte values a caller may pass where it should pass another.
Words(self) == LeafValues \cup Nodes(self)

NoCall ==
    [op |-> "none", index |-> 0, leaf |-> 0, proof |-> <<>>, root |-> 0,
     ok |-> FALSE, err |-> "none"]

\* `proof` with its k-th element replaced by w.
Replaced(proof, k, w) == [proof EXCEPT ![k] = w]

\* The lists `leaves` with one leaf given another value.
OneLeafChanged(leaves) ==
    {[leaves EXCEPT ![i] = v] : i \in 1 .. Len(leaves), v \in LeafValues} \ {leaves}

\* Every ordering of `leaves`.
Reorderings(leaves) ==
    {[i \in 1 .. Len(leaves) |-> leaves[p[i]]] : p \in Permutations(1 .. Len(leaves))}

\* The fields of an intent, the pool's fields among them.
AddressFields == {"user", "currency0", "currency1", "hooks"}

IntegerFields == {"fee", "tick_spacing", "tick_lower", "tick_upper", "amount", "nonce", "deadline"}

FieldValues == 0 .. MaxField

\* The value of field f of an intent.
Field(intent, f) ==
    CASE f = "user" -> intent.user
      [] f = "currency0" -> intent.pool.currency0
      [] f = "currency1" -> intent.pool.currency1
      [] f = "fee" -> intent.pool.fee
      [] f = "tick_spacing" -> intent.pool.tick_spacing
      [] f = "hooks" -> intent.pool.hooks
      [] f = "tick_lower" -> intent.tick_lower
      [] f = "tick_upper" -> intent.tick_upper
      [] f = "amount" -> intent.amount
      [] f = "nonce" -> intent.nonce
      [] OTHER -> intent.deadline

\* The intent with field f set to v.
WithField(intent, f, v) ==
    CASE f = "user" -> [intent EXCEPT !.user = v]
      [] f = "currency0" -> [intent EXCEPT !.pool.currency0 = v]
      [] f = "currency1" -> [intent EXCEPT !.pool.currency1 = v]
      [] f = "fee" -> [intent EXCEPT !.pool.fee = v]
      [] f = "tick_spacing" -> [intent EXCEPT !.pool.tick_spacing = v]
      [] f = "hooks" -> [intent EXCEPT !.pool.hooks = v]
      [] f = "tick_lower" -> [intent EXCEPT !.tick_lower = v]
      [] f = "tick_upper" -> [intent EXCEPT !.tick_upper = v]
      [] f = "amount" -> [intent EXCEPT !.amount = v]
      [] f = "nonce" -> [intent EXCEPT !.nonce = v]
      [] OTHER -> [intent EXCEPT !.deadline = v]

\* The other values field f of the intent can be given: another address in
\* the same letter case, or another integer.
OtherValues(intent, f) ==
    IF f \in AddressFields
    THEN {a \in AddressStrings : a.id # Field(intent, f).id /\ a.form = Field(intent, f).form}
    ELSE FieldValues \ {Field(intent, f)}

\* The same address in the other letter case.
Respelled(a) == [a EXCEPT !.form = IF a.form = "lower" THEN "checksum" ELSE "lower"]

\* The intent the tests sign, for a user and a nonce.
_make_test_intent(user, nonce) ==
    [user |-> user,
     pool |-> [currency0 |-> [id |-> 1, form |-> "lower"],
               currency1 |-> [id |-> 2, form |-> "lower"],
               fee |-> 0, tick_spacing |-> 1,
               hooks |-> [id |-> 1, form |-> "lower"]],
     tick_lower |-> 0, tick_upper |-> 1, amount |-> 1, nonce |-> nonce,
     deadline |-> 1]

ChainIds == {1, 31337}

Contracts == {[id |-> k, form |-> "lower"] : k \in Keys}

NoOut == [err |-> "unset", addr |-> Stranger]

\* A signing session before anything was signed.
NoSign ==
    [intent |-> _make_test_intent(Address(1), 0), key |-> 1, chain_id |-> 1,
     contract |-> [id |-> 1, form |-> "lower"], signature |-> <<>>,
     shown |-> _make_test_intent(Address(1), 0), changed |-> "none",
     respelt |-> FALSE, out |-> NoOut, leaves |-> <<>>]

\* The collector's chain id and verifying contract (the hook).
collector_chain_id == 31337

collector_verifying_contract == [id |-> 1, form |-> "lower"]

\* config.py min_batch_size
min_batch_size == 2

\* The 65 bytes 0xab...ab: no signature, its recovery id is 0xab.
Forged == <<<<"r", 0, 0>>, <<"s", 0, 0>>, 171>>

\* No request yet.
NoResp ==
    [op |-> "none", intent |-> _make_test_intent(Address(1), 0), signature |-> Forged,
     status |-> 0, detail |-> "none", pending_count |-> 0]

\* last_batch_root and last_batch_tx are None.
NoBatch == [set |-> FALSE, root |-> 0, tx |-> 0]

\* process_batch is not running and has not run: `pending` is its local
\* list, `raced` tells that an intent was accepted while it ran, `ret` and
\* `sent` what the last call returned and whether submit_batch returned.
NoProcess == [pc |-> "idle", pending |-> <<>>, raced |-> FALSE, ret |-> "none", sent |-> FALSE]

\* A collector just constructed, before the agent's first batch check.
CollectorIdle ==
    /\ pending_intents = <<>>
    /\ batches_executed = 0
    /\ now = 1
    /\ resp = NoResp
    /\ last_batch = NoBatch
    /\ pb = NoProcess
    /\ accepted = {}
    /\ batched = {}

Init ==
    /\ input \in LeafLists
    /\ tree = NoTree
    /\ other = <<>>
    /\ tree2 = NoTree
    /\ call = NoCall
    /\ sg = NoSign
    /\ CollectorIdle
    /\ rg = NoRange
    /\ ad = AdaptiveParams(default_k)

\* tree = MerkleTree(input): raises ValueError on an empty list, before any
\* attribute is set; otherwise the tree has its leaves and all its layers.
Construct ==
    /\ call.op = "none"
    /\ IF no_leaves(input)
       THEN /\ tree' = tree
            /\ call' = [NoCall EXCEPT !.op = "init", !.err = "ValueError"]
       ELSE /\ tree' = MerkleTree(input)
            /\ call' = [NoCall EXCEPT !.op = "init"]
    /\ UNCHANGED <<input, other, tree2, agentVars>>

\* tree.get_proof(index): IndexError outside [0, len(leaves)), the proof inside.
GetProof(index) ==
    /\ tree # NoTree
    /\ IF ~index_in_range(tree, index)
       THEN call' = [NoCall EXCEPT !.op = "get_proof", !.index = index,
                                   !.err = "IndexError"]
       ELSE call' = [NoCall EXCEPT !.op = "get_proof", !.index = index,
                                   !.proof = get_proof(tree, index)]
    /\ UNCHANGED <<input, tree, other, tree2, agentVars>>

\* The caller holds a tree and the proof get_proof has just returned.
HasProof == tree # NoTree /\ call.op = "get_proof" /\ call.err = "none"

\* tree.verify(leaf, proof, root), on a proof the caller has just got from
\* get_proof and may have altered.
Verify(leaf, proof, root_) ==
    /\ call' = [NoCall EXCEPT !.op = "verify", !.leaf = leaf, !.proof = proof,
                               !.root = root_, !.ok = verify(leaf, proof, root_)]
    /\ UNCHANGED <<input, tree, other, tree2, agentVars>>

\* The caller verifies the leaf with the proof it got and the tree's root.
VerifyHonest ==
    /\ HasProof
    /\ Verify(tree.leaves[call.index + 1], call.proof, root(tree))

\* A wrong value w passed in place of v: a leaf value, or a node of the tree
\* no larger than v (the digests folded from it stay within the model's integers).
Fits(w, v) == w # v /\ (w \in LeafValues \/ w <= v)

\* The caller passes one wrong argument: another leaf, the proof with one
\* element replaced, or another root.
VerifyTampered ==
    /\ HasProof
    /\ \E w \in Words(tree) :
        LET leaf == tree.leaves[call.index + 1]
            proof == call.proof
        IN  \/ /\ Fits(w, leaf)
               /\ Verify(w, proof, root(tree))
            \/ \E k \in 1 .. Len(proof) :
                  /\ Fits(w, proof[k])
                  /\ Verify(leaf, Replaced(proof, k, w), root(tree))
            \/ /\ w # root(tree)
               /\ Verify(leaf, proof, w)

\* tree2 = MerkleTree(other), for a list `other` related to `input`.
ConstructOther(leaves) ==
    /\ tree # NoTree
    /\ tree2 = NoTree
    /\ ~no_leaves(leaves)
    /\ other' = leaves
    /\ tree2' = MerkleTree(leaves)
    /\ call' = [NoCall EXCEPT !.op = "init"]
    /\ UNCHANGED <<input, tree, agentVars>>

\* The same ordered list once more.
Rebuild == ConstructOther(input)

\* The list with one leaf changed.
BuildChanged == \E leaves \in OneLeafChanged(input) : ConstructOther(leaves)

\* The same leaves in another order.
BuildReordered == \E leaves \in Reorderings(input) \ {input} : ConstructOther(leaves)

\* The caller reads tree.root.
ReadRoot ==
    /\ tree # NoTree
    /\ call' = [NoCall EXCEPT !.op = "root", !.root = root(tree)]
    /\ UNCHANGED <<input, tree, other, tree2, agentVars>>

\* The caller overwrites one element of the list it passed to the
\* constructor with the next leaf value.
WriteInput(i) ==
    /\ tree # NoTree
    /\ input = tree.leaves
    /\ input' = [input EXCEPT ![i] = (input[i] + 1) % (MaxLeaf + 1)]
    /\ tree' = [tree EXCEPT !.leaves = leaves_after_write(tree, input')]
    /\ call' = [NoCall EXCEPT !.op = "write", !.index = i - 1]
    /\ UNCHANGED <<other, tree2, agentVars>>

Next ==
    \/ Construct
    \/ \E index \in Indices : GetProof(index)
    \/ VerifyHonest
    \/ VerifyTampered

Spec == Init /\ [][Next]_vars

NextPair ==
    \/ Construct
    \/ Rebuild
    \/ BuildChanged
    \/ BuildReordered

SpecPair == Init /\ [][NextPair]_vars

NextFrame ==
    \/ Construct
    \/ \E index \in Indices : GetProof(index)
    \/ VerifyHonest
    \/ ReadRoot
    \/ \E i \in 1 .. Len(input) : WriteInput(i)

SpecFrame == Init /\ [][NextFrame]_vars

\* A signer holds a key and an intent, for a chain and a verifying contract.
InitSign ==
    /\ input = <<>>
    /\ tree = NoTree
    /\ other = <<>>
    /\ tree2 = NoTree
    /\ call = NoCall
    /\ \E user \in AddressStrings, nonce \in FieldValues, key \in Keys,
          chain_id \in ChainIds, contract \in Contracts :
          sg = [NoSign EXCEPT !.intent = _make_test_intent(user, nonce),
                              !.shown = _make_test_intent(user, nonce),
                              !.key = key, !.chain_id = chain_id,
                              !.contract = contract]
    /\ CollectorIdle
    /\ rg = NoRange
    /\ ad = AdaptiveParams(default_k)

\* signature = sign_intent(intent, key, chain_id, contract)
SignIntent ==
    /\ sg.signature = <<>>
    /\ sg' = [sg EXCEPT !.signature = sign_intent(sg.intent, sg.key, sg.chain_id, sg.contract)]
    /\ UNCHANGED <<merkleVars, collectorVars, rg, ad>>

\* One field of the intent is given another value before it is shown to the
\* verifier.
ChangeField(f, v) ==
    /\ sg.changed = "none"
    /\ sg.out = NoOut
    /\ sg.leaves = <<>>
    /\ sg' = [sg EXCEPT !.shown = WithField(sg.shown, f, v), !.changed = f]
    /\ UNCHANGED <<merkleVars, collectorVars, rg, ad>>

\* The user's address is written in the other letter case.
Respell ==
    /\ ~sg.respelt
    /\ sg.out = NoOut
    /\ sg.leaves = <<>>
    /\ sg' = [sg EXCEPT !.shown.user = Respelled(sg.shown.user), !.respelt = TRUE]
    /\ UNCHANGED <<merkleVars, collectorVars, rg, ad>>

\* recovered = verify_intent_signature(shown, signature, chain_id, contract)
VerifyIntentSignature ==
    /\ sg.signature # <<>>
    /\ sg.out = NoOut
    /\ sg' = [sg EXCEPT !.out = verify_intent_signature(sg.shown, sg.signature,
                                                        sg.chain_id, sg.contract)]
    /\ UNCHANGED <<merkleVars, collectorVars, rg, ad>>

\* The leaf hashes of the intent and of the intent shown.
ComputeLeaves ==
    /\ sg.leaves = <<>>
    /\ sg' = [sg EXCEPT !.leaves = <<compute_leaf(sg.intent), compute_leaf(sg.shown)>>]
    /\ UNCHANGED <<merkleVars, collectorVars, rg, ad>>

NextSign ==
    \/ SignIntent
    \/ \E f \in AddressFields \cup IntegerFields :
          \E v \in OtherValues(sg.shown, f) : ChangeField(f, v)
    \/ Respell
    \/ VerifyIntentSignature
    \/ ComputeLeaves

SpecSign == InitSign /\ [][NextSign]_vars

\* ----------------------------------------------------------- the collector

\* A deadline check that lets an intent through one second late.
deadline_passed_late(intent, t) == intent.deadline + 1 < t

\* collector.py line 29: the deadline is earlier than the current time.
deadline_passed(intent, t) == intent.deadline < t

\* A signature check that accepts whatever address is recovered.
signature_error_any_signer(intent, signature) ==
    LET recovered == verify_intent_signature(intent, signature, collector_chain_id,
                                             collector_verifying_contract)
    IN  IF recovered.err # "none" THEN "Invalid signature" ELSE "none"

\* collector.py lines 33-45: recovery raised, the recovered address is not
\* the user's (compared in lower case), or the signature is the user's.
signature_error(intent, signature) ==
    LET recovered == verify_intent_signature(intent, signature, collector_chain_id,
                                             collector_verifying_contract)
    IN  IF recovered.err # "none" THEN "Invalid signature"
        ELSE IF lower(recovered.addr) # lower(intent.user) THEN "Signature mismatch"
        ELSE "none"

\* A duplicate check that compares the user strings as written.
duplicate_nonce_exact(pending, intent) ==
    \E i \in 1 .. Len(pending) :
        /\ pending[i][1].user = intent.user
        /\ pending[i][1].nonce = intent.nonce

\* collector.py lines 48-53: a pending intent has the same user, compared in
\* lower case, and the same nonce.
duplicate_nonce(pending, intent) ==
    \E i \in 1 .. Len(pending) :
        /\ lower(pending[i][1].user) = lower(intent.user)
        /\ pending[i][1].nonce = intent.nonce

\* collector.py submit_intent: the detail of the HTTP 400 it raises, or
\* "none" when the intent is accepted.
submit_intent(pending, intent, signature, t) ==
    IF deadline_passed(intent, t) THEN "Intent deadline has passed"
    ELSE IF signature_error(intent, signature) # "none" THEN signature_error(intent, signature)
    ELSE IF duplicate_nonce(pending, intent) THEN "Duplicate nonce"
    ELSE "none"

\* The intents clients submit: a user's intent, the same with the address in
\* lower case, the user's next nonce, and another user's intent.
Intents ==
    {_make_test_intent(Address(1), 0), _make_test_intent(lower(Address(1)), 0),
     _make_test_intent(Address(1), 1), _make_test_intent(Address(NKeys), 0)}

\* The signatures a request carries: the intent signed by either user's key,
\* the same intent with another nonce signed by the first key, or the forged
\* bytes.
Signatures(intent) ==
    {sign_intent(intent, k, collector_chain_id, collector_verifying_contract) : k \in {1, NKeys}}
        \cup {sign_intent([intent EXCEPT !.nonce = 1 - intent.nonce], 1, collector_chain_id,
                          collector_verifying_contract)}
        \cup {Forged}

\* The pair that identifies an intent for replay purposes.
UserNonce(intent) == <<abi_address(intent.user), intent.nonce>>

InitCollector ==
    /\ input = <<>>
    /\ tree = NoTree
    /\ other = <<>>
    /\ tree2 = NoTree
    /\ call = NoCall
    /\ sg = NoSign
    /\ CollectorIdle
    /\ rg = NoRange
    /\ ad = AdaptiveParams(default_k)

\* The clock advances.
Tick ==
    /\ now < MaxClock
    /\ now' = now + 1
    /\ UNCHANGED <<merkleVars, sg, rg, ad, pending_intents, batches_executed, last_batch, resp,
                   pb, accepted, batched>>

\* The intents the collector and a running process_batch hold.
Held ==
    IF pb.pc = "copied" THEN Len(pending_intents)
    ELSE Len(pending_intents) + Len(pb.pending)

\* POST /intents: collector.submit_intent(request), on a request thread.
SubmitIntent(intent, signature) ==
    LET detail == submit_intent(pending_intents, intent, signature, now)
    IN  /\ Held < MaxPending
        /\ IF detail # "none"
           THEN /\ resp' = [op |-> "submit_intent", intent |-> intent,
                            signature |-> signature, status |-> 400, detail |-> detail,
                            pending_count |-> 0]
                /\ UNCHANGED <<pending_intents, accepted, pb>>
           ELSE /\ pending_intents' = Append(pending_intents, <<intent, signature>>)
                /\ resp' = [op |-> "submit_intent", intent |-> intent,
                            signature |-> signature, status |-> 200, detail |-> "accepted",
                            pending_count |-> Len(pending_intents) + 1]
                /\ accepted' = accepted \cup {UserNonce(intent)}
                /\ pb' = [pb EXCEPT !.raced = @ \/ pb.pc # "idle"]
        /\ UNCHANGED <<merkleVars, sg, rg, ad, batches_executed, last_batch, now, batched>>

\* drain_pending line 85, from process_batch line 58:
\* intents = list(self.pending_intents)
DrainCopy ==
    /\ pb.pc = "idle"
    /\ pb' = [pc |-> "copied", pending |-> pending_intents, raced |-> FALSE,
              ret |-> "running", sent |-> FALSE]
    /\ UNCHANGED <<merkleVars, sg, rg, ad, pending_intents, batches_executed, last_batch, now,
                   resp, accepted, batched>>

\* drain_pending line 86: self.pending_intents.clear()
DrainClear ==
    /\ pb.pc = "copied"
    /\ pending_intents' = <<>>
    /\ pb' = [pb EXCEPT !.pc = "drained"]
    /\ UNCHANGED <<merkleVars, sg, rg, ad, batches_executed, last_batch, now, resp, accepted,
                   batched>>

\* A put-back that forgets the drained intents.
extend_dropped(list, more) == list

\* A put-back that loses the signatures of the drained intents.
extend_unsigned(list, more) == list \o [i \in 1 .. Len(more) |-> <<more[i][1], Forged>>]

\* list.extend(more), process_batch lines 61 and 93.
extend(list, more) == list \o more

\* process_batch lines 59-62: fewer than min_batch_size, put them back,
\* return None.
PutBackTooFew ==
    /\ pb.pc = "drained"
    /\ Len(pb.pending) < min_batch_size
    /\ pending_intents' = extend(pending_intents, pb.pending)
    /\ pb' = [pb EXCEPT !.pc = "idle", !.pending = <<>>, !.ret = "None"]
    /\ UNCHANGED <<merkleVars, sg, rg, ad, batches_executed, last_batch, now, resp, accepted,
                   batched>>

\* process_batch lines 70, 90-94: submit_batch raises (build, send or a
\* failed receipt status), the intents are put back, return None.
SubmitBatchFails ==
    /\ pb.pc = "drained"
    /\ Len(pb.pending) >= min_batch_size
    /\ pending_intents' = extend(pending_intents, pb.pending)
    /\ pb' = [pb EXCEPT !.pc = "idle", !.pending = <<>>, !.ret = "None"]
    /\ UNCHANGED <<merkleVars, sg, rg, ad, batches_executed, last_batch, now, resp, accepted,
                   batched>>

\* The 32-byte value of a leaf digest: the digests of the model's intents
\* differ in user and nonce only.
leaf_word(digest) == 2 * (digest[2][2] - 1) + digest[2][7]

\* executor.py get_batch_root: the root of the tree of the intents' leaves.
get_batch_root(intents) ==
    root(MerkleTree([i \in 1 .. Len(intents) |-> leaf_word(compute_leaf(intents[i]))]))

\* collector.py record_batch, from process_batch line 73: one more batch
\* executed, one more entry of batch_history.
record_batch(executed) == executed + 1

\* The (intent, signature) pairs of a list, as (user, nonce) pairs.
UserNonces(pending) == {UserNonce(pending[i][1]) : i \in 1 .. Len(pending)}

\* The intents of the pairs of a list: [p[0] for p in pending].
IntentsOf(pending) == [i \in 1 .. Len(pending) |-> pending[i][1]]

\* process_batch lines 69-88: submit_batch returns the hash, the batch is
\* recorded with its root, the adaptive parameters learn from it, the hash
\* is returned.
BatchRecorded ==
    /\ pb.pc = "drained"
    /\ Len(pb.pending) >= min_batch_size
    /\ batches_executed < MaxBatches
    /\ batches_executed' = record_batch(batches_executed)
    /\ last_batch' = [set |-> TRUE, root |-> get_batch_root(IntentsOf(pb.pending)),
                      tx |-> batches_executed + 1]
    /\ ad' = update_k(adaptive_record_batch(ad,
                 BatchResult(pb.pending[1][1].tick_lower, pb.pending[1][1].tick_upper,
                             NonPositive, NonPositive)))
    /\ batched' = batched \cup UserNonces(pb.pending)
    /\ pb' = [pb EXCEPT !.pc = "idle", !.pending = <<>>, !.ret = "tx", !.sent = TRUE]
    /\ UNCHANGED <<merkleVars, sg, rg, pending_intents, now, resp, accepted>>

\* process_batch lines 69-77, 90-94: submit_batch returns the hash and the
\* batch is recorded, then the receipt lookup raises: the intents are put
\* back, return None.
RecordedThenFails ==
    /\ pb.pc = "drained"
    /\ Len(pb.pending) >= min_batch_size
    /\ batches_executed < MaxBatches
    /\ batches_executed' = record_batch(batches_executed)
    /\ last_batch' = [set |-> TRUE, root |-> get_batch_root(IntentsOf(pb.pending)),
                      tx |-> batches_executed + 1]
    /\ batched' = batched \cup UserNonces(pb.pending)
    /\ pending_intents' = extend(pending_intents, pb.pending)
    /\ pb' = [pb EXCEPT !.pc = "idle", !.pending = <<>>, !.ret = "None", !.sent = TRUE]
    /\ UNCHANGED <<merkleVars, sg, rg, ad, now, resp, accepted>>

\* The collector's intake: every request, the clock, and a batch thread whose
\* batches the chain turns down.
NextCollector ==
    \/ Tick
    \/ \E intent \in Intents :
          \E signature \in Signatures(intent) : SubmitIntent(intent, signature)
    \/ DrainCopy
    \/ DrainClear
    \/ PutBackTooFew
    \/ SubmitBatchFails

SpecCollector == InitCollector /\ [][NextCollector]_vars

\* The signature of the intent by its user's key.
SignedByUser(intent) ==
    sign_intent(intent, abi_address(intent.user), collector_chain_id,
                collector_verifying_contract)

\* The agent: request threads with properly signed intents, and the batch
\* thread.
NextAgent ==
    \/ \E intent \in Intents : SubmitIntent(intent, SignedByUser(intent))
    \/ DrainCopy
    \/ DrainClear
    \/ PutBackTooFew
    \/ SubmitBatchFails
    \/ BatchRecorded
    \/ RecordedThenFails

SpecAgent == InitCollector /\ [][NextAgent]_vars

\* The agent while submit_batch succeeds, the batch thread scheduled fairly.
NextAgentFair ==
    \/ \E intent \in Intents : SubmitIntent(intent, SignedByUser(intent))
    \/ DrainCopy
    \/ DrainClear
    \/ PutBackTooFew
    \/ BatchRecorded
    \/ RecordedThenFails

SpecAgentFair ==
    /\ InitCollector
    /\ [][NextAgentFair]_vars
    /\ WF_vars(DrainCopy \/ DrainClear \/ PutBackTooFew \/ BatchRecorded \/ RecordedThenFails)

\* -------------------------------------------------------- the range caller

Prices == {Price(log) : log \in -MaxLog .. MaxLog} \cup {NonPositive}

Volatilities == -1 .. MaxVol

Multipliers == -1 .. MaxK

Spacings == 1 .. MaxSpacing

InitRange ==
    /\ input = <<>>
    /\ tree = NoTree
    /\ other = <<>>
    /\ tree2 = NoTree
    /\ call = NoCall
    /\ sg = NoSign
    /\ CollectorIdle
    /\ ad = AdaptiveParams(default_k)
    /\ \E current_price \in Prices, volatility \in Volatilities, k_multiplier \in Multipliers,
          tick_spacing \in Spacings :
          rg = [NoRange EXCEPT !.current_price = current_price, !.volatility = volatility,
                               !.k_multiplier = k_multiplier, !.tick_spacing = tick_spacing]

\* first = compute_optimal_range(current_price, volatility, k_multiplier, tick_spacing)
ComputeRange ==
    /\ rg.first.err = "unset"
    /\ rg' = [rg EXCEPT !.first = compute_optimal_range(rg.current_price, rg.volatility,
                                                        rg.k_multiplier, rg.tick_spacing)]
    /\ UNCHANGED <<merkleVars, sg, collectorVars, ad>>

\* The same call with a larger volatility.
ComputeHigherVolatility(volatility) ==
    /\ rg.first.err # "unset"
    /\ rg.varied = "none"
    /\ volatility > rg.volatility
    /\ rg' = [rg EXCEPT !.varied = "volatility", !.larger = volatility,
                        !.second = compute_optimal_range(rg.current_price, volatility,
                                                         rg.k_multiplier, rg.tick_spacing)]
    /\ UNCHANGED <<merkleVars, sg, collectorVars, ad>>

\* The same call with a larger multiplier.
ComputeHigherK(k_multiplier) ==
    /\ rg.first.err # "unset"
    /\ rg.varied = "none"
    /\ k_multiplier > rg.k_multiplier
    /\ rg' = [rg EXCEPT !.varied = "k_multiplier", !.larger = k_multiplier,
                        !.second = compute_optimal_range(rg.current_price, rg.volatility,
                                                         k_multiplier, rg.tick_spacing)]
    /\ UNCHANGED <<merkleVars, sg, collectorVars, ad>>

NextRange ==
    \/ ComputeRange
    \/ \E volatility \in Volatilities : ComputeHigherVolatility(volatility)
    \/ \E k_multiplier \in Multipliers : ComputeHigherK(k_multiplier)

SpecRange == InitRange /\ [][NextRange]_vars

\* ----------------------------------------------------- the adaptive caller

\* The multipliers an agent is configured with: inside, at and outside
\* [min_k, max_k].
InitialK == {min_k - 10, min_k, min_k + 2, default_k, max_k - 5, max_k, max_k + 10}

\* Batch results: without prices (as process_batch records them), with the
\* price moved inside the range, and with the price outside the range.
Results ==
    {BatchResult(-1, 1, NonPositive, NonPositive),
     BatchResult(-1, 1, Price(0), Price(Resolution)),
     BatchResult(-1, 1, Price(0), Price(2 * Resolution))}

InitAdaptive ==
    /\ input = <<>>
    /\ tree = NoTree
    /\ other = <<>>
    /\ tree2 = NoTree
    /\ call = NoCall
    /\ sg = NoSign
    /\ CollectorIdle
    /\ rg = NoRange
    /\ \E k \in InitialK : ad = AdaptiveParams(k)

\* adaptive.record_batch(result)
RecordResult(result) ==
    /\ Len(ad.history) < MaxHistory
    /\ ad' = [adaptive_record_batch(ad, result) EXCEPT !.op = "record_batch"]
    /\ UNCHANGED <<merkleVars, sg, collectorVars, rg>>

\* adaptive.update_k()
UpdateK ==
    /\ ad' = [update_k(ad) EXCEPT !.op = "update_k"]
    /\ UNCHANGED <<merkleVars, sg, collectorVars, rg>>

NextAdaptive ==
    \/ \E result \in Results : RecordResult(result)
    \/ UpdateK

SpecAdaptive == InitAdaptive /\ [][NextAdaptive]_vars

\* ------------------------------------------------------------------ claims

ValidIndices == 0 .. Len(tree.leaves) - 1

\* The call was verify(leaves[i], get_proof(i), root).
HonestCall(i) ==
    /\ call.op = "verify"
    /\ call.leaf = tree.leaves[i + 1]
    /\ call.proof = get_proof(tree, i)
    /\ call.root = root(tree)

\* C1: for every tree and every valid index i, verify(leaves[i],
\* get_proof(i), root) returns true, duplicate leaves and odd lengths included.
C1_ProofVerifies ==
    \A i \in ValidIndices : HonestCall(i) => call.ok = TRUE

\* A three-leaf tree with a duplicated leaf whose last (carried) leaf verified.
C1_Witness ==
    /\ Len(tree.leaves) = 3
    /\ tree.leaves[1] = tree.leaves[2]
    /\ HonestCall(2)
    /\ call.ok = TRUE

\* The call was verify with exactly one argument of the honest call for
\* index i replaced by a different value.
OneArgumentReplaced(i) ==
    LET leaf == tree.leaves[i + 1]
        proof == get_proof(tree, i)
    IN  /\ call.op = "verify"
        /\ \/ call.leaf # leaf /\ call.proof = proof /\ call.root = root(tree)
           \/ /\ call.leaf = leaf
              /\ call.root = root(tree)
              /\ Len(call.proof) = Len(proof)
              /\ Cardinality({k \in 1 .. Len(proof) : call.proof[k] # proof[k]}) = 1
           \/ call.leaf = leaf /\ call.proof = proof /\ call.root # root(tree)

\* C2: verify returns false when exactly one of the leaf, one proof element
\* or the root of an honest call is replaced by a different value.
C2_TamperingRejected ==
    \A i \in ValidIndices : OneArgumentReplaced(i) => call.ok = FALSE

\* A verify whose root alone was replaced, on a tree of several layers.
C2_Witness ==
    /\ Len(tree.layers) >= 3
    /\ \E i \in ValidIndices :
          /\ OneArgumentReplaced(i)
          /\ call.root # root(tree)
    /\ call.ok = FALSE

\* C3: layer 0 is the input leaf list in the given order; node i of each
\* next layer is hashPair(layer[2i], layer[2i+1]) when both exist and
\* layer[2i] itself when 2i is the last node of an odd-length layer.
C3_LayerStructure ==
    tree # NoTree =>
        /\ tree.layers[1] = input
        /\ \A k \in 1 .. Len(tree.layers) - 1 :
              LET layer == tree.layers[k]
                  above == tree.layers[k + 1]
              IN  /\ Len(above) = (Len(layer) + 1) \div 2
                  /\ \A i \in 0 .. Len(above) - 1 :
                        above[i + 1] =
                            IF 2 * i + 1 < Len(layer)
                            THEN _hash_pair(layer[2 * i + 1], layer[2 * i + 2])
                            ELSE layer[2 * i + 1]

\* A tree of three leaves: its second layer carries the third leaf unhashed.
C3_Witness ==
    /\ Len(tree.leaves) = 3
    /\ Len(tree.layers) = 3
    /\ tree.layers[2][2] = input[3]

\* 2 to the power n.
RECURSIVE Pow2(_)
Pow2(n) == IF n = 0 THEN 1 ELSE 2 * Pow2(n - 1)

\* The sibling get_proof takes at the k-th layer (1-based) for leaf `index`:
\* a one-element list, or the empty list for a carried node.
SiblingAt(k, index) ==
    LET layer == tree.layers[k]
        idx == index \div Pow2(k - 1)
    IN  IF idx % 2 = 1
        THEN <<layer[idx]>>
        ELSE IF idx + 1 < Len(layer) THEN <<layer[idx + 2]>> ELSE <<>>

\* The siblings of layers 1 .. k, bottom to top.
RECURSIVE SiblingsUpTo(_, _)
SiblingsUpTo(k, index) ==
    IF k = 0 THEN <<>> ELSE SiblingsUpTo(k - 1, index) \o SiblingAt(k, index)

\* C4: get_proof(index) lists, bottom to top over the layers below the
\* root, layer[idx+1] for an even idx with a right neighbour, layer[idx-1]
\* for an odd idx and nothing for an even last idx, idx halving at each
\* layer; for two leaves the proofs are [L2] and [L1].
C4_ProofShape ==
    (call.op = "get_proof" /\ call.err = "none") =>
        /\ call.proof = SiblingsUpTo(Len(tree.layers) - 1, call.index)
        /\ Len(tree.leaves) = 2 =>
              /\ call.index = 0 => call.proof = <<tree.leaves[2]>>
              /\ call.index = 1 => call.proof = <<tree.leaves[1]>>

\* get_proof(2) of a three-leaf tree: nothing at layer 0, then the left
\* neighbour at layer 1.
C4_Witness ==
    /\ call.op = "get_proof"
    /\ call.err = "none"
    /\ Len(tree.leaves) = 3
    /\ call.index = 2
    /\ call.proof = <<tree.layers[2][1]>>

\* The nodes _build has handed to _hash_pair or carried: all but the root.
Hashed == UNION {{tree.layers[k][i] : i \in 1 .. Len(tree.layers[k])} :
                 k \in 1 .. Len(tree.layers) - 1}

\* C5: hashPair(a, b) = hashPair(b, a), and what is hashed is the smaller
\* value followed by the larger; for all the values the constructor has just
\* paired or carried.
C5_HashPairSorted ==
    call.op = "init" =>
        \A a \in Hashed, b \in Hashed :
            /\ _hash_pair(a, b) = _hash_pair(b, a)
            /\ _hash_pair(a, b) =
                  Keccak(<<(IF a < b THEN a ELSE b)>> \o <<(IF a < b THEN b ELSE a)>>)

\* A tree whose first two leaves come larger first: _build hashed them swapped.
C5_Witness ==
    /\ call.op = "init"
    /\ Len(tree.leaves) = 2
    /\ tree.leaves[1] > tree.leaves[2]
    /\ root(tree) = Keccak(<<tree.leaves[2]>> \o <<tree.leaves[1]>>)

Differing(l1, l2) == {i \in 1 .. Len(l1) : l1[i] # l2[i]}

\* C7: changing the value of one leaf, the other leaves and the order kept,
\* changes the root.
C7_LeafChangeChangesRoot ==
    (tree2 # NoTree /\ Len(other) = Len(input)
                   /\ Cardinality(Differing(input, other)) = 1) =>
        root(tree2) # root(tree)

\* The carried third leaf of a three-leaf list changed, and the root with it.
C7_Witness ==
    /\ tree2 # NoTree
    /\ Len(input) = 3
    /\ Differing(input, other) = {3}
    /\ root(tree2) # root(tree)

\* The leaves of a list are pairwise distinct.
Distinct(leaves) == \A i, j \in 1 .. Len(leaves) : i # j => leaves[i] # leaves[j]

\* tree2 was built from another ordering of the pairwise distinct input.
Reordered ==
    /\ tree2 # NoTree
    /\ Distinct(input)
    /\ other # input
    /\ other \in Reorderings(input)

\* C8 as stated: for pairwise distinct leaves, any different ordering of the
\* same leaves yields a different root.
C8_ReorderChangesRoot ==
    Reordered => root(tree2) # root(tree)

\* The sibling pairs of layer 0, as sets; the unpaired last leaf of an odd
\* list is a set of its own.
PairSets(leaves) ==
    {{leaves[2 * i + 1], leaves[IF 2 * i + 2 <= Len(leaves) THEN 2 * i + 2 ELSE 2 * i + 1]} :
        i \in 0 .. ((Len(leaves) + 1) \div 2) - 1}

\* l2 is l1 with the two leaves of some sibling pairs (2i, 2i+1) exchanged.
SwapsWithinPairs(l1, l2) ==
    /\ Len(l1) = Len(l2)
    /\ \A i \in 0 .. ((Len(l1) + 1) \div 2) - 1 :
          IF 2 * i + 2 <= Len(l1)
          THEN {l2[2 * i + 1], l2[2 * i + 2]} = {l1[2 * i + 1], l1[2 * i + 2]}
          ELSE l2[2 * i + 1] = l1[2 * i + 1]

\* A word that keccak yields for some pair of words (Keccak is onto 4, 5, ...).
IsDigest(w) == w >= 4

\* C8, amended: for pairwise distinct leaves, an ordering that only exchanges
\* the two leaves of sibling pairs (2i, 2i+1) yields the same root; an
\* ordering that changes the set of sibling pairs of layer 0 yields a
\* different root, when no leaf is itself the digest of a pair.
C8_ReorderAmended ==
    Reordered =>
        /\ SwapsWithinPairs(input, other) => root(tree2) = root(tree)
        /\ ((\A i \in 1 .. Len(input) : ~IsDigest(input[i]))
              /\ PairSets(other) # PairSets(input)) => root(tree2) # root(tree)

\* Leaves 2 and 3 of four distinct leaves exchanged: another order, the same root.
C8_Witness ==
    /\ Reordered
    /\ Len(input) = 4
    /\ Differing(input, other) = {3, 4}
    /\ root(tree2) = root(tree)

\* C9: constructing a tree from an empty leaf sequence fails with an error
\* and produces no tree.
C9_EmptyRejected ==
    (call.op = "init" /\ input = <<>>) =>
        /\ call.err = "ValueError"
        /\ tree = NoTree

\* The constructor was called on the empty list and raised.
C9_Witness ==
    /\ input = <<>>
    /\ call.op = "init"
    /\ call.err = "ValueError"

\* C10: get_proof(index) raises IndexError for every index < 0 and every
\* index >= len(leaves), returns a proof for every other index, and leaves
\* the tree unchanged in both cases.
C10_GetProofRange ==
    [][call'.op = "get_proof" =>
          /\ tree' = tree
          /\ (call'.index < 0 \/ call'.index >= Len(tree.leaves))
                => (call'.err = "IndexError" /\ call'.proof = <<>>)
          /\ (call'.index >= 0 /\ call'.index < Len(tree.leaves))
                => (call'.err = "none" /\ Len(call'.proof) < Len(tree.layers))]_vars

\* get_proof(len(leaves)) raised IndexError.
C10_Witness ==
    /\ tree # NoTree
    /\ call.op = "get_proof"
    /\ call.index = Len(tree.leaves)
    /\ call.err = "IndexError"

\* C11: for a tree built from exactly one leaf, the root is that leaf,
\* get_proof(0) is the empty list and verify(leaf, [], root) is true.
C11_SingleLeaf ==
    Len(tree.leaves) = 1 =>
        /\ root(tree) = tree.leaves[1]
        /\ root(tree) = input[1]
        /\ (call.op = "get_proof" /\ call.index = 0) =>
              (call.err = "none" /\ call.proof = <<>>)
        /\ (call.op = "verify" /\ call.leaf = tree.leaves[1]
                               /\ call.proof = <<>>
                               /\ call.root = root(tree)) => call.ok = TRUE

\* The leaf of a one-leaf tree verified with the empty proof.
C11_Witness ==
    /\ Len(tree.leaves) = 1
    /\ call.op = "verify"
    /\ call.leaf = input[1]
    /\ call.proof = <<>>
    /\ call.root = input[1]
    /\ call.ok = TRUE

\* The leaf count is 2 to the power k.
IsPow2(n, k) == n = Pow2(k)

\* C12: for 2^k leaves every get_proof(i) has exactly k elements (2 for
\* four leaves, whose root is hashPair(hashPair(L0, L1), hashPair(L2, L3)));
\* a proof never has more elements than there are layers above layer 0.
C12_ProofLength ==
    /\ Len(tree.leaves) = 4 =>
          root(tree) = _hash_pair(_hash_pair(input[1], input[2]),
                                  _hash_pair(input[3], input[4]))
    /\ (call.op = "get_proof" /\ call.err = "none") =>
          /\ Len(call.proof) <= Len(tree.layers) - 1
          /\ \A k \in 0 .. MaxLeaves :
                IsPow2(Len(tree.leaves), k) => Len(call.proof) = k

\* get_proof(3) of a four-leaf tree returned two siblings.
C12_Witness ==
    /\ Len(tree.leaves) = 4
    /\ call.op = "get_proof"
    /\ call.index = 3
    /\ Len(call.proof) = 2

\* C13: signing an intent and recovering from the same intent, signature,
\* chain id and verifying contract yields the address of the signing key,
\* for every key, intent, chain id and verifying contract.
C13_SignRecover ==
    (sg.out # NoOut /\ sg.changed = "none") =>
        /\ sg.out.err = "none"
        /\ sg.out.addr = Address(sg.key)

C13_Witness ==
    /\ sg.out # NoOut
    /\ sg.changed = "none"
    /\ sg.key = NKeys
    /\ sg.chain_id = 31337
    /\ sg.out.addr = Address(NKeys)

\* C14: after signing, giving any one field of the intent another value and
\* recovering with the original signature yields an address that is not the
\* signer's, in either letter case.
C14_TamperDetected ==
    (sg.out # NoOut /\ sg.changed # "none") =>
        /\ sg.out.addr # Address(sg.key)
        /\ lower(sg.out.addr) # lower(Address(sg.key))

C14_Witness ==
    /\ sg.out # NoOut
    /\ sg.changed = "amount"
    /\ sg.out.err = "none"
    /\ sg.out.addr # Address(sg.key)

\* The intents have the same value in every field, addresses taken as
\* the 20 bytes they spell.
SameFields(a, b) ==
    /\ \A f \in AddressFields : Field(a, f).id = Field(b, f).id
    /\ \A f \in IntegerFields : Field(a, f) = Field(b, f)

\* C15: compute_leaf is a function of the field tuple: intents with the same
\* field values have the same hash, and intents that differ in one field,
\* a field of the pool included, have different hashes.
C15_LeafInjective ==
    sg.leaves # <<>> =>
        /\ SameFields(sg.intent, sg.shown) => sg.leaves[1] = sg.leaves[2]
        /\ sg.changed # "none" => sg.leaves[1] # sg.leaves[2]

C15_Witness ==
    /\ sg.leaves # <<>>
    /\ sg.changed = "deadline"
    /\ sg.respelt
    /\ sg.leaves[1] # sg.leaves[2]

\* The step is a call of submit_intent, with the request resp' records.
SubmitStep == SubmitIntent(resp'.intent, resp'.signature)

\* A pending intent has the user's address and the nonce of `intent`.
AlreadyPending(intent) ==
    \E i \in 1 .. Len(pending_intents) :
        UserNonce(pending_intents[i][1]) = UserNonce(intent)

C17_ReplayProtection ==
    [][(SubmitStep /\ UserNonce(resp'.intent) \in accepted) =>
          /\ resp'.status = 400
          /\ pending_intents' = pending_intents]_vars

\* C18: submit_intent enqueues an intent only if recovery from its signature
\* yields the user's address (in any letter case); when recovery raises or
\* yields another address it answers HTTP 400 and pending_intents is
\* unchanged.
C18_SignatureChecked ==
    [][SubmitStep =>
          LET recovered == verify_intent_signature(resp'.intent, resp'.signature,
                               collector_chain_id, collector_verifying_contract)
              matches == /\ recovered.err = "none"
                         /\ abi_address(recovered.addr) = abi_address(resp'.intent.user)
          IN  /\ pending_intents' # pending_intents => matches
              /\ ~matches => (resp'.status = 400 /\ pending_intents' = pending_intents)]_vars

C18_Witness ==
    /\ resp.detail = "Signature mismatch"
    /\ resp.intent.user = Address(NKeys)
    /\ resp.signature = sign_intent(resp.intent, 1, collector_chain_id,
                                    collector_verifying_contract)
    /\ Len(pending_intents) = 1

\* C19: submit_intent answers HTTP 400 to every intent whose deadline is
\* earlier than the current time and leaves pending_intents unchanged: no
\* intent is enqueued with deadline < now at its submission.
C19_ExpiredRejected ==
    [][SubmitStep =>
          /\ resp'.intent.deadline < now =>
                /\ resp'.status = 400
                /\ resp'.detail = "Intent deadline has passed"
                /\ pending_intents' = pending_intents
          /\ pending_intents' # pending_intents => resp'.intent.deadline >= now]_vars

C19_Witness ==
    /\ resp.detail = "Intent deadline has passed"
    /\ resp.intent.deadline < now
    /\ Len(pending_intents) = 1
    /\ pending_intents[1][1].deadline = now - 1

\* The width of a range.
Width(range) == range.tick_upper - range.tick_lower

\* Both calls of compute_optimal_range have returned a range.
TwoRanges == rg.first.err = "none" /\ rg.second.err = "none"

\* C20 as stated: a larger volatility, or a larger multiplier, gives a
\* strictly larger width tick_upper - tick_lower.
C20_StrictlyMonotone ==
    TwoRanges => Width(rg.second) > Width(rg.first)

\* The steps by which the second call moves the log-price further than the
\* first, on each side.
Further ==
    IF rg.varied = "volatility"
    THEN rg.k_multiplier * (rg.larger - rg.volatility)
    ELSE (rg.larger - rg.k_multiplier)
            * (IF rg.volatility <= 0 THEN min_volatility ELSE rg.volatility)

\* C20, amended: a larger volatility, above a positive one, or a larger
\* multiplier never gives a smaller width; with a multiplier that is not
\* negative the width is strictly larger once k * volatility has grown by
\* a whole tick spacing of log-price.
C20_Monotone ==
    (TwoRanges /\ (rg.varied = "volatility" => rg.volatility > 0)) =>
        /\ Width(rg.second) >= Width(rg.first)
        /\ (rg.k_multiplier >= 0 /\ Further >= rg.tick_spacing * Resolution)
               => Width(rg.second) > Width(rg.first)

C20_Witness ==
    /\ TwoRanges
    /\ rg.volatility > 0
    /\ rg.varied = "volatility"
    /\ rg.k_multiplier > 0
    /\ Further >= rg.tick_spacing * Resolution
    /\ Width(rg.second) > Width(rg.first)
    /\ rg.tick_spacing = MaxSpacing

\* C29: construction ends with a tree for every non-empty leaf list: a layer
\* of n > 1 nodes is followed by one of ceil(n/2) nodes, which is shorter, the
\* last layer has exactly one node, and root is that node.
C29_BuildTerminates ==
    /\ (call.op = "init" /\ input # <<>>) => tree # NoTree
    /\ tree # NoTree =>
          LET last == Len(tree.layers)
          IN  /\ last >= 1
              /\ last <= Len(tree.leaves)
              /\ \A k \in 1 .. last - 1 :
                    LET n == Len(tree.layers[k])
                        m == Len(tree.layers[k + 1])
                    IN  n > 1 /\ 2 * m >= n /\ 2 * m <= n + 1 /\ m < n
              /\ Len(tree.layers[last]) = 1
              /\ root(tree) = tree.layers[last][1]

C29_Witness ==
    /\ call.op = "init"
    /\ Len(input) = 3
    /\ Len(tree.layers) = 3
    /\ Len(tree.layers[2]) = 2
    /\ root(tree) = tree.layers[3][1]

C30_KBounded ==
    [][/\ UpdateK =>
             /\ Len(ad.history) >= 2 => (min_k <= ad'.k_multiplier /\ ad'.k_multiplier <= max_k)
             /\ Len(ad.history) < 2 => ad'.k_multiplier = ad.k_multiplier
       /\ (\E result \in Results : RecordResult(result)) => ad'.k_multiplier = ad.k_multiplier]_vars

C30_Witness ==
    /\ ad.op = "update_k"
    /\ Len(ad.history) >= 2
    /\ ad.k_multiplier = max_k
    /\ calculate_il_score(ad.history[1]) = 100

\* C21: process_batch returns the transaction hash if a batch was submitted
\* during the call and None only when no batch transaction was submitted.
C21_ReturnsHash ==
    pb.pc = "idle" =>
        /\ pb.ret = "tx" => pb.sent
        /\ pb.ret = "None" => ~pb.sent

\* C22: with fewer than min_batch_size intents pending and no submission
\* running concurrently, process_batch sends nothing, records no batch,
\* returns None and leaves pending_intents with the same intents in the same
\* order.
C22_TooFewPutBack ==
    [][(PutBackTooFew /\ ~pb.raced) =>
          /\ pending_intents' = pb.pending
          /\ batches_executed' = batches_executed
          /\ last_batch' = last_batch
          /\ ~pb'.sent
          /\ pb'.ret = "None"]_vars

C22_Witness ==
    /\ pb.pc = "idle"
    /\ pb.ret = "None"
    /\ ~pb.raced
    /\ ~pb.sent
    /\ Len(pending_intents) = 1
    /\ batches_executed = 0

\* C23: when submit_batch raises, process_batch returns None, every intent
\* it drained is back in pending_intents with its signature, and
\* batches_executed, last_batch_root and last_batch_tx (and with them
\* batch_history) are unchanged.
C23_FailurePutBack ==
    [][SubmitBatchFails =>
          /\ pb'.ret = "None"
          /\ \A i \in 1 .. Len(pb.pending) :
                \E j \in 1 .. Len(pending_intents') : pending_intents'[j] = pb.pending[i]
          /\ Len(pending_intents') = Len(pending_intents) + Len(pb.pending)
          /\ batches_executed' = batches_executed
          /\ last_batch' = last_batch]_vars

C23_Witness ==
    /\ pb.pc = "idle"
    /\ pb.ret = "None"
    /\ ~pb.sent
    /\ ~pb.raced
    /\ Len(pending_intents) >= min_batch_size
    /\ ~last_batch.set

\* C25: under any interleaving of submit_intent with process_batch, every
\* accepted intent is in pending_intents, in the list process_batch holds, or
\* in a batch handed to submit_batch: none is dropped.
C25_NoneDropped ==
    \A un \in accepted :
        \/ un \in UserNonces(pending_intents)
        \/ un \in UserNonces(pb.pending)
        \/ un \in batched

\* C26: in every reachable state pending_intents holds no two entries with
\* the same user (in any letter case) and the same nonce.
C26_NoDuplicates ==
    \A i, j \in 1 .. Len(pending_intents) :
        UserNonce(pending_intents[i][1]) = UserNonce(pending_intents[j][1]) => i = j

\* C27: once submit_batch has returned a transaction hash for the drained
\* intents, none of them is put back into pending_intents, whatever happens
\* in the rest of process_batch.
C27_SubmittedNotPutBack ==
    [][(pb.pc = "drained" /\ pb'.sent) => pending_intents' = pending_intents]_vars

\* C28: while the agent runs and submit_batch succeeds, if pending_intents
\* holds at least min_batch_size intents then, the batch thread being
\* scheduled fairly, a batch is eventually recorded: batches_executed
\* increases and last_batch_root is set.
C28_EventuallyRecorded ==
    \A n \in 0 .. MaxBatches - 1 :
        (Len(pending_intents) >= min_batch_size /\ batches_executed = n)
            ~> (batches_executed > n /\ last_batch.set)

====
